---- MODULE Spec2Model ----
(* Model of app.py: a Streamlit page that hands an uploaded file or a      *)
(* YouTube URL to the MarkItDown engine and keeps the last result in the   *)
(* session.  Python strings are sequences of one-character strings.        *)
EXTENDS Integers, Sequences, FiniteSets, TLC

VARIABLES markdown_content, file_name, scratch, pc, req, tmp_file_path,
          engine_args, outcome, message, download, preview,
          url_in, classified, is_match, video_id_out

vars == <<markdown_content, file_name, scratch, pc, req, tmp_file_path,
          engine_args, outcome, message, download, preview,
          url_in, classified, is_match, video_id_out>>

session == <<markdown_content, file_name>>

page == <<scratch, pc, req, tmp_file_path, engine_args, outcome, message, download, preview>>

classifier == <<url_in, classified, is_match, video_id_out>>

(* ---------------- bounds ---------------- *)
\* most scratch files that may pile up on disk before file submissions stop
MaxScratch == 2

\* identifiers are sampled with strides 0..MaxStride through the alphabet
MaxStride == 1

\* longest engine output is PreviewLimit + MaxOver characters
MaxOver == 1

(* ---------------- Python values ---------------- *)
None == <<>>

Some(v) == <<v>>

\* truthiness of an optional string: None and "" are both falsy
Truthy(opt) == opt # None /\ opt[1] # <<>>

Min(S) == CHOOSE x \in S : \A y \in S : x <= y

Max(S) == CHOOSE x \in S : \A y \in S : x >= y

StartsWithAt(s, i, p) ==
    /\ i + Len(p) - 1 <= Len(s)
    /\ SubSeq(s, i, i + Len(p) - 1) = p

UpperChars == <<"A", "B", "C", "D", "E", "F", "G", "H", "I", "J", "K", "L", "M", "N", "O", "P", "Q", "R", "S", "T", "U", "V", "W", "X", "Y", "Z">>

LowerChars == <<"a", "b", "c", "d", "e", "f", "g", "h", "i", "j", "k", "l", "m", "n", "o", "p", "q", "r", "s", "t", "u", "v", "w", "x", "y", "z">>

DigitChars == <<"0", "1", "2", "3", "4", "5", "6", "7", "8", "9">>

\* str.lower() on one character
LowerChar(c) ==
    IF \E k \in 1..Len(UpperChars) : UpperChars[k] = c
    THEN LowerChars[CHOOSE k \in 1..Len(UpperChars) : UpperChars[k] = c]
    ELSE c

lower(s) == [i \in 1..Len(s) |-> LowerChar(s[i])]

DotPositions(s) == {i \in 1..Len(s) : s[i] = "."}

rsplit_first_dot(s) ==
    IF DotPositions(s) = {} THEN <<s>>
    ELSE LET i == Min(DotPositions(s))
         IN <<SubSeq(s, 1, i - 1), SubSeq(s, i + 1, Len(s))>>

\* s.rsplit(".", 1): split at the last "." when there is one
rsplit(s) ==
    IF DotPositions(s) = {} THEN <<s>>
    ELSE LET i == Max(DotPositions(s))
         IN <<SubSeq(s, 1, i - 1), SubSeq(s, i + 1, Len(s))>>

get_file_extension(filename) ==
    IF DotPositions(filename) # {} THEN lower(rsplit(filename)[2]) ELSE <<>>

(* ---------------- URL classifier ---------------- *)
\* the character class [0-9A-Za-z_-]
IdCharSeq == DigitChars \o UpperChars \o LowerChars \o <<"_", "-">>

IdChars_no_dash == {IdCharSeq[k] : k \in 1..Len(IdCharSeq)} \ {"-"}

IdChars == {IdCharSeq[k] : k \in 1..Len(IdCharSeq)}

IdLen == 11

\* ".+$": one or more non-newline characters up to the end of the string,
\* or up to a single newline that ends the string
DotPlusEnd(rest) ==
    LET body == IF Len(rest) > 0 /\ rest[Len(rest)] = "\n"
                THEN SubSeq(rest, 1, Len(rest) - 1) ELSE rest
    IN  \/ Len(rest) >= 1 /\ \A k \in 1..Len(rest) : rest[k] # "\n"
        \/ Len(body) >= 1 /\ Len(body) < Len(rest) /\ \A k \in 1..Len(body) : body[k] # "\n"

Schemes == {<<>>, <<"h", "t", "t", "p", ":", "/", "/">>, <<"h", "t", "t", "p", "s", ":", "/", "/">>}

WwwPrefixes == {<<>>, <<"w", "w", "w", ".">>}

Hosts == {<<"y", "o", "u", "t", "u", "b", "e", ".", "c", "o", "m">>, <<"y", "o", "u", "t", "u", ".", "b", "e">>, <<"y", "o", "u", "t", "u", "b", "e">>}

\* re.match of ^(https?://)?(www\.)?(youtube\.com|youtu\.?be)/.+$
is_youtube_url(url) ==
    \E scheme \in Schemes, www \in WwwPrefixes, host \in Hosts :
        LET pre == scheme \o www \o host \o <<"/">>
        IN  StartsWithAt(url, 1, pre) /\ DotPlusEnd(SubSeq(url, Len(pre) + 1, Len(url)))

IsId(s, i) == i + IdLen - 1 <= Len(s) /\ \A k \in i..(i + IdLen - 1) : s[k] \in IdChars

\* each pattern: ordered literal alternatives, then the group of IdLen characters
patterns == << <<<<"v", "=">>, <<"/">>>>, <<<<"y", "o", "u", "t", "u", ".", "b", "e", "/">>>>, <<<<"e", "m", "b", "e", "d", "/">>>> >>

AltsAt(alts, url, i) ==
    {a \in 1..Len(alts) : StartsWithAt(url, i, alts[a]) /\ IsId(url, i + Len(alts[a]))}

\* re.search(pattern, url): leftmost position, first alternative; yields group(1)
re_search(alts, url) ==
    LET pos == {i \in 1..Len(url) : AltsAt(alts, url, i) # {}}
    IN  IF pos = {} THEN None
        ELSE LET i == Min(pos)
                 a == Min(AltsAt(alts, url, i))
                 g == i + Len(alts[a])
             IN  Some(SubSeq(url, g, g + IdLen - 1))

extract_youtube_id(url) ==
    LET hits == {p \in 1..Len(patterns) : re_search(patterns[p], url) # None}
    IN  IF hits = {} THEN None ELSE re_search(patterns[Min(hits)], url)

(* ---------------- supported-format catalog ---------------- *)
get_supported_formats ==
    << [extensions |-> <<<<"d", "o", "c", "x">>, <<"d", "o", "c">>, <<"p", "d", "f">>, <<"e", "p", "u", "b">>>>],
       [extensions |-> <<<<"x", "l", "s", "x">>, <<"x", "l", "s">>>>],
       [extensions |-> <<<<"p", "p", "t", "x">>, <<"p", "p", "t">>>>],
       [extensions |-> <<<<"h", "t", "m", "l">>, <<"h", "t", "m">>>>],
       [extensions |-> <<<<"c", "s", "v">>, <<"j", "s", "o", "n">>, <<"x", "m", "l">>, <<"z", "i", "p">>>>] >>

all_extensions ==
    UNION {{get_supported_formats[c].extensions[k] :
                k \in 1..Len(get_supported_formats[c].extensions)} :
           c \in 1..Len(get_supported_formats)}

(* ---------------- inputs ---------------- *)
CandidateFiles ==
    { [name |-> <<"r", "e", "p", "o", "r", "t", ".", "d", "o", "c", "x">>, data |-> <<80, 75>>],
      [name |-> <<"a", ".", "b", ".", "p", "d", "f">>,     data |-> <<37, 80>>],
      [name |-> <<"D", "A", "T", "A", ".", "C", "S", "V">>,    data |-> <<>>],
      [name |-> <<"n", "o", "t", "e", "s", ".", "t", "x", "t">>,   data |-> <<110>>],
      [name |-> <<"R", "E", "A", "D", "M", "E">>,      data |-> <<35>>] }

\* st.file_uploader(type=all_extensions) only lets listed extensions through
file_uploader == {f \in CandidateFiles : get_file_extension(f.name) \in all_extensions}

UploadInputs == {None} \cup {Some(f) : f \in file_uploader}

text_input ==
    { <<>>,
      <<"h", "t", "t", "p", "s", ":", "/", "/", "w", "w", "w", ".", "y", "o", "u", "t", "u", "b", "e", ".", "c", "o", "m", "/", "w", "a", "t", "c", "h", "?", "v", "=", "d", "Q", "w", "4", "w", "9", "W", "g", "X", "c", "Q">>,
      <<"y", "o", "u", "t", "u", ".", "b", "e", "/", "x">>,
      <<"h", "t", "t", "p", "s", ":", "/", "/", "e", "x", "a", "m", "p", "l", "e", ".", "c", "o", "m", "/", "v", "i", "d", "e", "o">> }

PreviewLimit == 2000

ContentChars == <<"#", " ", "H", "e", "a", "d", "i", "n", "g", "\n", "-", " ", "i", "t", "e", "m", ".", "m", "d", " ">>

Content(n) == [i \in 1..n |-> ContentChars[((i + n) % Len(ContentChars)) + 1]]

ContentLens == {0, 1, PreviewLimit} \cup {PreviewLimit + k : k \in 1..MaxOver}

\* what result.text_content may be when md.convert returns
EngineTexts == {Content(n) : n \in ContentLens}

\* what str(e) may be when md.convert raises
EngineErrors == {<<>>, <<"F", "i", "l", "e", " ", "c", "o", "n", "v", "e", "r", "s", "i", "o", "n", " ", "f", "a", "i", "l", "e", "d">>}

TmpNames == 1..MaxScratch

(* ---------------- results section (main, lines 216-239) ---------------- *)
TruncationNotice == <<".", ".", ".", "\n", "\n", "(", "P", "r", "e", "v", "i", "e", "w", " ", "t", "r", "u", "n", "c", "a", "t", "e", "d", ".", " ", "D", "o", "w", "n", "l", "o", "a", "d", " ", "t", "h", "e", " ", "f", "u", "l", "l", " ", "f", "i", "l", "e", " ", "t", "o", " ", "s", "e", "e", " ", "a", "l", "l", " ", "c", "o", "n", "t", "e", "n", "t", ".", ")">>

Take(s, n) == SubSeq(s, 1, IF Len(s) < n THEN Len(s) ELSE n)

preview_content_ge(content) ==
    IF Len(content) >= PreviewLimit
    THEN Take(content, PreviewLimit) \o TruncationNotice
    ELSE Take(content, PreviewLimit)

preview_content(content) ==
    IF Len(content) > PreviewLimit
    THEN Take(content, PreviewLimit) \o TruncationNotice
    ELSE Take(content, PreviewLimit)

download_file_name_first_dot(name) == rsplit_first_dot(name)[1] \o <<".", "m", "d">>

download_file_name(name) == rsplit(name)[1] \o <<".", "m", "d">>

\* the download button and the preview area drawn for a session state
RenderDownload(content, name) ==
    IF content # <<>>
    THEN Some([file_name |-> download_file_name(name), data |-> content])
    ELSE None

RenderPreview(content) ==
    IF content # <<>> THEN Some(preview_content(content)) ELSE None

(* ---------------- alerts ---------------- *)
NoMessage == [level |-> "none", text |-> <<"", <<>>>>]

Spinner == [level |-> "spinner", text |-> <<"Converting to Markdown...", <<>>>>]

ErrNoInput == [level |-> "error", text |-> <<"Please upload a file or enter a YouTube URL", <<>>>>]

ErrBadUrl == [level |-> "error", text |-> <<"Please enter a valid YouTube URL", <<>>>>]

ErrConversion(error) == [level |-> "error", text |-> <<"Error during conversion: ", error>>]

Success == [level |-> "success", text |-> <<"Conversion completed successfully!", <<>>>>]

NoOutcome == [kind |-> "none", val |-> <<>>]

(* ---------------- validation and dispatch (main, lines 179-214) ---------------- *)
RejectNoInput(uploaded_file, youtube_url) == uploaded_file = None /\ youtube_url = <<>>

RejectBadUrl_only_without_file(uploaded_file, youtube_url) ==
    uploaded_file = None /\ youtube_url # <<>> /\ ~is_youtube_url(youtube_url)

RejectBadUrl(uploaded_file, youtube_url) ==
    youtube_url # <<>> /\ ~is_youtube_url(youtube_url)

UseFile_url_first(uploaded_file, youtube_url) == uploaded_file # None /\ youtube_url = <<>>

\* "if uploaded_file:" is tried before "elif youtube_url:"
UseFile(uploaded_file, youtube_url) == uploaded_file # None

url_file_name_fixed(video_id) == <<"y", "o", "u", "t", "u", "b", "e", "_", "v", "i", "d", "e", "o", ".", "m", "d">>

url_file_name(video_id) ==
    IF Truthy(video_id) THEN <<"y", "o", "u", "t", "u", "b", "e", "_">> \o video_id[1] \o <<".", "m", "d">>
    ELSE <<"y", "o", "u", "t", "u", "b", "e", "_", "v", "i", "d", "e", "o", ".", "m", "d">>

\* the (markdown_content, error) pair both converters build from the engine's outcome
converter_result(out) ==
    IF out.kind = "returned" THEN <<out.val, None>> ELSE <<<<>>, Some(out.val)>>

\* "if error:" in main
ErrorBranch(error) == Truthy(error)

InitPage ==
    /\ markdown_content = <<>>
    /\ file_name = <<>>
    /\ scratch = {}
    /\ pc = "idle"
    /\ req = None
    /\ tmp_file_path = None
    /\ engine_args = <<>>
    /\ outcome = NoOutcome
    /\ message = NoMessage
    /\ download = None
    /\ preview = None

Init ==
    /\ InitPage
    /\ url_in = <<>>
    /\ classified = FALSE
    /\ is_match = FALSE
    /\ video_id_out = None

Render ==
    /\ download' = RenderDownload(markdown_content', file_name')
    /\ preview' = RenderPreview(markdown_content')

\* a script run without the button pressed
Rerun ==
    /\ pc = "idle"
    /\ req' = None
    /\ message' = NoMessage
    /\ engine_args' = <<>>
    /\ outcome' = NoOutcome
    /\ UNCHANGED <<session, scratch, pc, tmp_file_path, classifier>>
    /\ Render

\* the button pressed: validation, then the start of the conversion
Submit(uploaded_file, youtube_url) ==
    /\ pc = "idle"
    /\ req' = Some([uploaded_file |-> uploaded_file, youtube_url |-> youtube_url])
    /\ outcome' = NoOutcome
    /\ UNCHANGED <<session, classifier>>
    /\ IF RejectNoInput(uploaded_file, youtube_url) THEN
           /\ message' = ErrNoInput
           /\ engine_args' = <<>>
           /\ UNCHANGED <<scratch, pc, tmp_file_path>>
           /\ Render
       ELSE IF RejectBadUrl(uploaded_file, youtube_url) THEN
           /\ message' = ErrBadUrl
           /\ engine_args' = <<>>
           /\ UNCHANGED <<scratch, pc, tmp_file_path>>
           /\ Render
       ELSE IF UseFile(uploaded_file, youtube_url) THEN
           \* convert_file_to_markdown up to the call of md.convert
           /\ Cardinality(scratch) < MaxScratch
           /\ \E n \in TmpNames \ {t.path.name : t \in scratch} :
                LET path == [name |-> n,
                             suffix |-> <<".">> \o get_file_extension(uploaded_file[1].name)]
                IN  /\ scratch' = scratch \cup {[path |-> path, data |-> uploaded_file[1].data]}
                    /\ tmp_file_path' = Some(path)
                    /\ engine_args' = <<[kind |-> "path", path |-> path, url |-> <<>>]>>
           /\ pc' = "converting"
           /\ message' = Spinner
           /\ UNCHANGED <<download, preview>>
       ELSE
           \* convert_youtube_to_markdown up to the call of md.convert
           /\ engine_args' = <<[kind |-> "url", path |-> [name |-> 0, suffix |-> <<>>],
                                url |-> youtube_url]>>
           /\ pc' = "converting"
           /\ message' = Spinner
           /\ UNCHANGED <<scratch, tmp_file_path, download, preview>>

\* md.convert comes back (returned or raised); the converter and main finish
Finish(out) ==
    /\ pc = "converting"
    /\ outcome' = out
    /\ pc' = "idle"
    /\ tmp_file_path' = None
    /\ UNCHANGED <<req, engine_args, classifier>>
    /\ LET uploaded_file == req[1].uploaded_file
           youtube_url == req[1].youtube_url
           res == converter_result(out)
       IN  IF UseFile(uploaded_file, youtube_url) THEN
               \* os.unlink is reached only when md.convert returned
               /\ scratch' = IF out.kind = "returned"
                             THEN {t \in scratch : t.path # tmp_file_path[1]}
                             ELSE scratch
               /\ IF ErrorBranch(res[2]) THEN
                      /\ message' = ErrConversion(res[2][1])
                      /\ UNCHANGED session
                  ELSE
                      /\ markdown_content' = res[1]
                      /\ file_name' = uploaded_file[1].name
                      /\ message' = Success
           ELSE
               /\ UNCHANGED scratch
               /\ IF ErrorBranch(res[2]) THEN
                      /\ message' = ErrConversion(res[2][1])
                      /\ UNCHANGED session
                  ELSE
                      /\ markdown_content' = res[1]
                      /\ file_name' = url_file_name(extract_youtube_id(youtube_url))
                      /\ message' = Success
    /\ Render

EngineReturns == \E text \in EngineTexts : Finish([kind |-> "returned", val |-> text])

EngineRaises == \E msg \in EngineErrors : Finish([kind |-> "raised", val |-> msg])

SubmitForm == \E uploaded_file \in UploadInputs, youtube_url \in text_input :
                  Submit(uploaded_file, youtube_url)

Next == Rerun \/ SubmitForm \/ EngineReturns \/ EngineRaises

Spec == Init /\ [][Next]_vars

(* ---------------- the classifier on its own ---------------- *)
SampleId(k, stride) ==
    [i \in 1..IdLen |-> IdCharSeq[((k + i * stride) % Len(IdCharSeq)) + 1]]

SampleIds ==
    {SampleId(k, stride) : k \in 0..(Len(IdCharSeq) - 1), stride \in 0..MaxStride}
        \cup {<<"d", "Q", "w", "4", "w", "9", "W", "g", "X", "c", "Q">>}

StandardForm == <<"h", "t", "t", "p", "s", ":", "/", "/", "w", "w", "w", ".", "y", "o", "u", "t", "u", "b", "e", ".", "c", "o", "m", "/", "w", "a", "t", "c", "h", "?", "v", "=">>

ShortForm == <<"h", "t", "t", "p", "s", ":", "/", "/", "y", "o", "u", "t", "u", ".", "b", "e", "/">>

EmbedForm == <<"h", "t", "t", "p", "s", ":", "/", "/", "w", "w", "w", ".", "y", "o", "u", "t", "u", "b", "e", ".", "c", "o", "m", "/", "e", "m", "b", "e", "d", "/">>

CanonicalForms == {StandardForm, ShortForm, EmbedForm}

OtherPrefixes == {<<"h", "t", "t", "p", "s", ":", "/", "/", "e", "x", "a", "m", "p", "l", "e", ".", "c", "o", "m", "/">>, <<"h", "t", "t", "p", "s", ":", "/", "/", "m", ".", "y", "o", "u", "t", "u", "b", "e", ".", "c", "o", "m", "/", "w", "a", "t", "c", "h", "?", "v", "=">>, <<"y", "o", "u", "t", "u", "b", "e", ".", "c", "o", "m", "/", "w", "a", "t", "c", "h", "?", "v", "=">>}

Tails == {<<>>, <<"&", "t", "=", "4", "2", "s">>}

OtherStrings ==
    { <<>>, <<"h", "t", "t", "p", "s", ":", "/", "/", "e", "x", "a", "m", "p", "l", "e", ".", "c", "o", "m", "/", "v", "i", "d", "e", "o">>, <<"n", "o", "t", " ", "a", " ", "u", "r", "l">>, <<"y", "o", "u", "t", "u", "b", "e", ".", "c", "o", "m", "/">>,
      <<"y", "o", "u", "t", "u", ".", "b", "e", "/", "x">>, <<"h", "t", "t", "p", "s", ":", "/", "/", "y", "o", "u", "t", "u", "b", "e", "/", "x", "\n">>, <<"h", "t", "t", "p", "s", ":", "/", "/", "w", "w", "w", ".", "y", "o", "u", "t", "u", "b", "e", ".", "c", "o", "m", "/", "a", "\n", "b">> }

ClassifierInputs ==
    {f \o id \o t : f \in CanonicalForms \cup OtherPrefixes, id \in SampleIds, t \in Tails}
        \cup OtherStrings

\* a string is handed to the two functions
InitClassifier ==
    /\ InitPage
    /\ url_in \in ClassifierInputs
    /\ classified = FALSE
    /\ is_match = FALSE
    /\ video_id_out = None

Classify ==
    /\ ~classified
    /\ classified' = TRUE
    /\ is_match' = is_youtube_url(url_in)
    /\ video_id_out' = extract_youtube_id(url_in)
    /\ UNCHANGED <<url_in, session, page>>

NextClassifier == Classify

SpecClassifier == InitClassifier /\ [][NextClassifier]_vars

(* ---------------- properties ---------------- *)

\* C1: whenever no conversion is in progress, no scratch file exists: every
\* scratch file is gone when convert_file_to_markdown has returned, whether
\* the engine returned or raised.
C1_NoScratchLeftBehind == pc = "idle" => scratch = {}

\* C2: a step in which the engine raises (any message, the empty one included)
\* leaves the session's markdown_content and file_name as they were.
C2_FailedConversionKeepsResult ==
    [][(pc = "converting" /\ outcome'.kind = "raised") => UNCHANGED session]_vars

ClaimRejected(r) ==
    \/ r.uploaded_file = None /\ r.youtube_url = <<>>
    \/ r.youtube_url # <<>> /\ ~is_youtube_url(r.youtube_url)

\* C3: a submission that validation rejects (no file and no URL, or a URL
\* that is_youtube_url rejects, with or without a file) shows a validation
\* error, calls the engine with nothing, creates no scratch file and leaves
\* the session's result unchanged.
C3_RejectedSubmissionHasNoEffect ==
    [][(pc = "idle" /\ req' # None /\ ClaimRejected(req'[1])) =>
          /\ message' \in {ErrNoInput, ErrBadUrl}
          /\ engine_args' = <<>>
          /\ pc' = "idle"
          /\ UNCHANGED <<scratch, session>>]_vars

C3_Witness ==
    /\ message = ErrBadUrl
    /\ req # None /\ req[1].uploaded_file # None
    /\ markdown_content # <<>>
    /\ engine_args = <<>>

IsConversionError(m) == m.level = "error" /\ m.text[1] = "Error during conversion: "

\* C4: a conversion ends with the success message exactly when the engine
\* returned, and with the conversion error message exactly when it raised.
C4_OutcomeDecidesMessage ==
    [][(pc = "converting" /\ pc' = "idle") =>
          /\ (outcome'.kind = "returned" <=> message' = Success)
          /\ (outcome'.kind = "raised" <=> IsConversionError(message'))]_vars

\* out is orig with its last extension replaced by .md
ReplacesLastExtension(orig, out) ==
    \E i \in 1..Len(orig) :
        /\ orig[i] = "."
        /\ \A j \in (i + 1)..Len(orig) : orig[j] # "."
        /\ out = SubSeq(orig, 1, i - 1) \o <<".", "m", "d">>

FileConverted ==
    /\ pc = "idle" /\ outcome.kind = "returned"
    /\ req # None /\ req[1].uploaded_file # None

\* C5: after a successful file conversion the session holds that
\* conversion's text, and the download is offered under the uploaded name
\* with its last extension replaced by .md.
C5_FileResultAndName ==
    FileConverted =>
        /\ markdown_content = outcome.val
        /\ markdown_content # <<>> => download # None
        /\ download # None =>
              /\ download[1].data = outcome.val
              /\ ReplacesLastExtension(req[1].uploaded_file[1].name, download[1].file_name)

C5_Witness ==
    /\ FileConverted
    /\ req[1].uploaded_file[1].name = <<"a", ".", "b", ".", "p", "d", "f">>
    /\ download # None /\ download[1].file_name = <<"a", ".", "b", ".", "m", "d">>

UrlConverted ==
    /\ pc = "idle" /\ outcome.kind = "returned"
    /\ req # None /\ req[1].uploaded_file = None /\ req[1].youtube_url # <<>>

\* C6: after a successful URL conversion the session holds that conversion's
\* text and the download name is youtube_<id>.md when extract_youtube_id
\* yields <id> for the URL, youtube_video.md when it yields None.
C6_UrlResultAndName ==
    UrlConverted =>
        LET id == extract_youtube_id(req[1].youtube_url)
        IN  /\ markdown_content = outcome.val
            /\ markdown_content # <<>> => download # None
            /\ download # None =>
                  download[1].file_name =
                      IF id = None THEN <<"y", "o", "u", "t", "u", "b", "e", "_", "v", "i", "d", "e", "o", ".", "m", "d">>
                      ELSE <<"y", "o", "u", "t", "u", "b", "e", "_">> \o id[1] \o <<".", "m", "d">>

C6_Witness ==
    /\ UrlConverted
    /\ download # None /\ download[1].file_name = <<"y", "o", "u", "t", "u", "b", "e", "_", "d", "Q", "w", "4", "w", "9", "W", "g", "X", "c", "Q", ".", "m", "d">>

C6_WitnessNoId ==
    /\ UrlConverted
    /\ download # None /\ download[1].file_name = <<"y", "o", "u", "t", "u", "b", "e", "_", "v", "i", "d", "e", "o", ".", "m", "d">>

\* C7: whenever a result is stored, the preview is the whole content when it
\* has at most PreviewLimit characters, and exactly its first PreviewLimit
\* characters followed by the truncation notice when it has more; the
\* download data is the whole content either way.
C7_PreviewAndDownload ==
    markdown_content # <<>> =>
        /\ download # None /\ download[1].data = markdown_content
        /\ preview # None
        /\ Len(markdown_content) <= PreviewLimit => preview[1] = markdown_content
        /\ Len(markdown_content) > PreviewLimit =>
              /\ Len(preview[1]) = PreviewLimit + Len(TruncationNotice)
              /\ \A i \in 1..PreviewLimit : preview[1][i] = markdown_content[i]
              /\ \A i \in 1..Len(TruncationNotice) :
                     preview[1][PreviewLimit + i] = TruncationNotice[i]

C7_Witness ==
    /\ Len(markdown_content) > PreviewLimit
    /\ preview # None /\ Len(preview[1]) > PreviewLimit
    /\ download # None /\ Len(download[1].data) > PreviewLimit

C7_WitnessAtLimit == Len(markdown_content) = PreviewLimit /\ preview # None

\* C8: every string that is_youtube_url rejects yields no identifier from
\* extract_youtube_id.
C8_RejectedHasNoId == (classified /\ ~is_match) => video_id_out = None

\* C9: for every 11-character identifier, the standard, short and embed
\* forms are accepted by is_youtube_url and extract_youtube_id returns
\* exactly the identifier.
C9_CanonicalFormsYieldId ==
    \A f \in CanonicalForms, id \in SampleIds :
        (classified /\ url_in = f \o id) => is_match /\ video_id_out = Some(id)

C9_Witness ==
    /\ classified
    /\ url_in = ShortForm \o <<"d", "Q", "w", "4", "w", "9", "W", "g", "X", "c", "Q">>
    /\ is_match /\ video_id_out = Some(<<"d", "Q", "w", "4", "w", "9", "W", "g", "X", "c", "Q">>)

BothSupplied ==
    /\ req # None /\ req[1].uploaded_file # None
    /\ req[1].youtube_url # <<>> /\ is_youtube_url(req[1].youtube_url)

\* C10: a submission calls the engine at most once; with a file and a valid
\* URL both supplied the engine gets the scratch path, never the URL, and
\* the stored name is the uploaded file's.
C10_OneCallFileFirst ==
    /\ Len(engine_args) <= 1
    /\ BothSupplied =>
          /\ \A k \in 1..Len(engine_args) : engine_args[k].kind = "path"
          /\ (pc = "idle" /\ outcome.kind = "returned") =>
                file_name = req[1].uploaded_file[1].name

C10_Witness ==
    /\ BothSupplied /\ pc = "idle" /\ outcome.kind = "returned"
    /\ Len(engine_args) = 1 /\ engine_args[1].kind = "path"
    /\ file_name = req[1].uploaded_file[1].name

====
